---- MODULE Spec2Model ----
(***************************************************************************)
(* MAD3PGLearner (src/Agents/MAD4PG/learning.py): the learner's training   *)
(* step as a state machine.                                                *)
(*                                                                         *)
(* Every network is one parameter variable holding an integer.  The agent  *)
(* lists keep the source's 0-based indices: a list of length n is a        *)
(* function on 0..n-1.                                                     *)
(*                                                                         *)
(* _step and _replicated_step are tf.functions, and what a call of step()  *)
(* does depends on how TensorFlow executes them (execution):               *)
(*   graph  the default: the Python body is traced into a graph, and the   *)
(*          graph runs once the whole body is traced.  The loop variable   *)
(*          of `for i in tf.range(..)` is a symbolic Tensor, so indexing a *)
(*          Python list with it raises TypeError while tracing, before any *)
(*          op of the call has run.                                        *)
(*   eager  tf.config.run_functions_eagerly(True): the statements run in   *)
(*          program order; the loop variable is an eager Tensor, which     *)
(*          indexes a list but whose str() is not that of an integer, so   *)
(*          line 196 finds none of the keys the loop stored and raises     *)
(*          KeyError.                                                      *)
(* Under either execution step() raises before the statements of _step     *)
(* that follow line 196 (the loss loop, the gradients, the apply loop) and *)
(* the end of step() get to run: no call reaches them, and a call of       *)
(* step() is the three actions StepBegin, PullBatch and                    *)
(* AssembleJointTargetAction.  What those statements would bind or write   *)
(* (the joint actions of the policy losses, the online parameters, the     *)
(* optimizer states, the collaborator's count) stays as construction left  *)
(* it.                                                                     *)
(* The replay iterator is outside the repository: whether it returns a     *)
(* batch or raises is an input.                                            *)
(***************************************************************************)
EXTENDS Integers, Sequences, FiniteSets, TLC

\* ---------------------------------------------------------------- bounds
MaxAgents == 2      \* list lengths and edge_number range over 1..MaxAgents
MaxPeriod == 2      \* target_update_period ranges over 1..MaxPeriod
MaxCalls == 3       \* step() is called at most MaxCalls times
NumReplicas == 2    \* replicas of the data-parallel step
MaxLen == 3         \* longest gradient list given to the reduction alone
MaxNames == 2       \* longest list of names given to get_variables

VARIABLES
    pc,           \* where the learner is: new, ctor_error, idle, pull, ...
    lens,         \* lengths of the lists given to __init__, and edge_number
    execution,    \* how the tf.functions execute: graph, eager
    period,       \* self._target_update_period
    online,       \* online parameters: [obs, cri, pol], each a list
    target,       \* target parameters: [obs, cri, pol], each a list
    opt,          \* optimizer states: [pol, cri], applies done per entry
    numSteps,     \* self._num_steps
    counterSteps, \* steps counted by self._counter
    registry,     \* keys of self._variables
    calls,        \* step() calls started
    pulled,       \* step() calls whose batch pull returned
    outcome,      \* how the last step() call ended: none, running, ok, <error>
    sSeen,        \* value of _num_steps read by the last synchronization test
    didSync,      \* whether the last call took the synchronization branch
    pre,          \* parameters and counter as the last call found them
    initial,      \* parameters as __init__ received them
    lastSync,     \* [done, online]: online parameters at the last copy
    trace,        \* phases the last call went through, in order
    edge_a_t,     \* joint target action of the last call, one slice per agent
    dpg_a_t,      \* joint actions given to the critics for the policy losses
                  \* of the last call, by agent
    gv,           \* last get_variables call: [names, err, groups]
    gradIn,       \* reduction alone: the replicas' gradient lists
    gradOut       \* reduction alone: [done, results]

vars == <<pc, lens, execution, period, online, target, opt, numSteps,
          counterSteps, registry, calls, pulled, outcome, sSeen, didSync,
          pre, initial, lastSync, trace, edge_a_t, dpg_a_t, gv, gradIn,
          gradOut>>

\* ---------------------------------------------------------------- helpers
None == <<>>
Some(v) == <<v>>

Min2(a, b) == IF a <= b THEN a ELSE b

List(n, v) == [i \in 0..(n - 1) |-> v]

\* A phase of a step() call, as recorded in trace.
Event(phase, net, agent) == [phase |-> phase, net |-> net, agent |-> agent]

NoGv ==
    [called |-> FALSE, names |-> <<>>, err |-> "none", groups |-> <<>>]

\* ------------------------------------------------- gradient reduction
\* Gradient lists are sequences: position j holds the gradient of variable
\* j-1, None or Some(v).

\* gradients_without_nones = [g for g in gradients if g is not None]
GradientsWithoutNones(gradients) ==
    SelectSeq(gradients, LAMBDA g : g # None)

RECURSIVE IndicesFrom(_, _)
IndicesFrom(gradients, i) ==
    IF i > Len(gradients) THEN <<>>
    ELSE IF gradients[i] # None
         THEN <<i>> \o IndicesFrom(gradients, i + 1)
         ELSE IndicesFrom(gradients, i + 1)

\* A slip: the results are put back at the first positions.
OriginalIndicesCompact(gradients) ==
    [i \in 1..Len(GradientsWithoutNones(gradients)) |-> i]

\* original_indices = [i for i, g in enumerate(gradients) if g is not None]
OriginalIndices(gradients) == IndicesFrom(gradients, 1)

RECURSIVE SumAt(_, _)
SumAt(lists, j) ==
    IF lists = <<>> THEN 0
    ELSE Head(lists)[j][1] + SumAt(Tail(lists), j)

\* replica_context.all_reduce('mean', values): replica_context holds the
\* gradient lists of the other replicas, each of which contributes its own
\* list without Nones; the mean at a position is over all the replicas.
AllReduceMean(replica_context, values) ==
    LET others == [r \in 1..Len(replica_context) |->
                      GradientsWithoutNones(replica_context[r])]
        n == Len(replica_context) + 1
    IN [j \in 1..Len(values) |->
           Some((values[j][1] + SumAt(others, j)) \div n)]

\* for ii, result in zip(original_indices, results_without_nones):
\*     results[ii] = result
RECURSIVE PutBack(_, _, _)
PutBack(results, indices, values) ==
    IF indices = <<>> \/ values = <<>> THEN results
    ELSE PutBack([results EXCEPT ![Head(indices)] = Head(values)],
                 Tail(indices), Tail(values))

average_gradients_across_replicas(replica_context, gradients) ==
    LET gradients_without_nones == GradientsWithoutNones(gradients)
        original_indices == OriginalIndices(gradients)
        results_without_nones ==
            AllReduceMean(replica_context, gradients_without_nones)
        results == [i \in 1..Len(gradients) |-> None]
    IN PutBack(results, original_indices, results_without_nones)

\* ------------------------------------------------ target synchronization
\* tf.math.mod(self._num_steps, self._target_update_period) == 0
ShouldSync(num_steps, target_update_period) ==
    num_steps % target_update_period = 0

\* zip(online_variables, target_variables): each is itself a zip of three
\* lists, so the pairs stop at the shortest of the six.
ZipLength(l) ==
    Min2(Min2(l.obs, Min2(l.cri, l.pol)), Min2(l.tobs, Min2(l.tcri, l.tpol)))

\* A slip: the policy networks left out of the copy.
SyncTargetsSkipPolicy(on, tg, n) ==
    [net \in {"obs", "cri", "pol"} |->
        [i \in DOMAIN tg[net] |->
            IF i < n /\ net # "pol" THEN on[net][i] ELSE tg[net][i]]]

\* for online, target in zip(...): for src, dest in zip(online, target):
\*     dest.assign(src)
SyncTargets(on, tg, n) ==
    [net \in {"obs", "cri", "pol"} |->
        [i \in DOMAIN tg[net] |->
            IF i < n THEN on[net][i] ELSE tg[net][i]]]

\* -------------------------------------------------------- construction
Lengths == 1..MaxAgents

\* The optimizer lists may also be empty.
OptimizerLengths == 0..MaxAgents

\* The list lengths and edge_number a caller may pass: the network lists,
\* policy_optimizers (popt) and critic_optimizers (copt).
AnyLens ==
    [pol : Lengths, cri : Lengths, obs : Lengths,
     tpol : Lengths, tcri : Lengths, tobs : Lengths, edge : Lengths,
     popt : OptimizerLengths, copt : OptimizerLengths]

\* How TensorFlow may execute the tf.functions.
Executions == {"graph", "eager"}

\* One agent count for every network list and for edge_number.
Matched(l) ==
    /\ l.cri = l.pol /\ l.obs = l.pol
    /\ l.tpol = l.pol /\ l.tcri = l.pol /\ l.tobs = l.pol
    /\ l.edge = l.pol

MatchedLens == {l \in AnyLens : Matched(l)}

\* The networks handed to __init__: online parameters 0, target parameters
\* either copies of them (0) or initialised on their own (1).  Nothing ties
\* the lengths of the optimizer lists to those of the network lists.
InitWith(lensSet, periods, targetValues, executions) ==
    /\ pc = "new"
    /\ lens \in lensSet
    /\ execution \in executions
    /\ period \in periods
    /\ online = [obs |-> List(lens.obs, 0), cri |-> List(lens.cri, 0),
                 pol |-> List(lens.pol, 0)]
    /\ \E t \in targetValues :
          target = [obs |-> List(lens.tobs, t), cri |-> List(lens.tcri, t),
                    pol |-> List(lens.tpol, t)]
    /\ opt = [pol |-> List(lens.popt, 0), cri |-> List(lens.copt, 0)]
    /\ numSteps = 0
    /\ counterSteps = 0
    /\ registry = {}
    /\ calls = 0
    /\ pulled = 0
    /\ outcome = "none"
    /\ sSeen = 0
    /\ didSync = FALSE
    /\ pre = [online |-> online, target |-> target, opt |-> opt,
              numSteps |-> 0]
    /\ initial = [online |-> online, target |-> target]
    /\ lastSync = [done |-> FALSE, online |-> online]
    /\ trace = <<>>
    /\ edge_a_t = List(0, 0)
    /\ dpg_a_t = <<>>
    /\ gv = NoGv
    /\ gradOut = [done |-> FALSE, results |-> <<>>]

Init ==
    /\ InitWith(MatchedLens, 1..MaxPeriod, {0, 1}, Executions)
    /\ gradIn = <<>>

\* for i in range(len(self._policy_networks)): the three target lists are
\* indexed by i, so a target list shorter than the policy list raises
\* IndexError; nothing else compares the lengths.
ConstructRaises(l) ==
    l.tobs < l.pol \/ l.tpol < l.pol \/ l.tcri < l.pol

RegisteredNames(l) ==
    {<<"critic_network", i>> : i \in 0..(l.pol - 1)}
        \cup {<<"policy_network", i>> : i \in 0..(l.pol - 1)}

Construct ==
    /\ pc = "new"
    /\ pc' = IF ConstructRaises(lens) THEN "ctor_error" ELSE "idle"
    /\ registry' = IF ConstructRaises(lens) THEN {} ELSE RegisteredNames(lens)
    /\ UNCHANGED <<lens, execution, period, online, target, opt, numSteps,
                   counterSteps, calls, pulled, outcome, sSeen, didSync, pre,
                   initial, lastSync, trace, edge_a_t, dpg_a_t, gv, gradIn,
                   gradOut>>

\* ------------------------------------------------------------- the step
\* An exception leaves step(): the call is over, nothing after the point of
\* the raise runs, and the learner can be called again.
Abort(error) ==
    /\ pc' = "idle"
    /\ outcome' = error

\* self._num_steps.assign_add(1): the variable is created once under the
\* replicator's scope and the call is made once, outside replicator.run, so
\* the one logical value gains delta.
assign_add(value, delta) == value + delta

\* step() enters _replicated_step: the synchronization test on the counter
\* as it is, the copy when the test holds, then the increment.  Under graph
\* execution these statements only add ops to the graph being traced: no
\* variable is read or written until the trace is complete.
StepBegin ==
    /\ pc = "idle"
    /\ calls < MaxCalls
    /\ calls' = calls + 1
    /\ outcome' = "running"
    /\ pre' = [online |-> online, target |-> target, opt |-> opt,
               numSteps |-> numSteps]
    /\ IF execution = "graph"
       THEN /\ didSync' = FALSE
            /\ trace' = <<>>
            /\ UNCHANGED <<sSeen, lastSync, target, numSteps>>
       ELSE /\ sSeen' = numSteps
            /\ lastSync' = IF ShouldSync(numSteps, period)
                           THEN [done |-> TRUE, online |-> online]
                           ELSE lastSync
            /\ didSync' = ShouldSync(numSteps, period)
            /\ target' = IF ShouldSync(numSteps, period)
                         THEN SyncTargets(online, target, ZipLength(lens))
                         ELSE target
            /\ numSteps' = assign_add(numSteps, 1)
            /\ trace' = <<Event("sync_decision", "-", -1),
                          Event("increment", "-", -1)>>
    /\ pc' = "pull"
    /\ gv' = NoGv
    /\ dpg_a_t' = <<>>
    /\ UNCHANGED <<initial, lens, execution, period, online, opt,
                   counterSteps, registry, pulled, edge_a_t, gradIn, gradOut>>

\* sample = next(self._iterator): the replay source returns a batch or
\* raises.  Under graph execution the statement is traced: a Python iterator
\* is asked (and may raise) during the trace, an iterator of tf.data gives
\* an op; no phase of the call has run either way.
PullBatch ==
    /\ pc = "pull"
    /\ trace' = IF execution = "graph" THEN trace
                ELSE Append(trace, Event("pull", "-", -1))
    /\ \E raises \in BOOLEAN :
          IF raises THEN Abort("PullError") /\ pulled' = pulled
          ELSE /\ pc' = "assemble"
               /\ outcome' = outcome
               /\ pulled' = pulled + 1
    /\ UNCHANGED <<lens, execution, period, online, target, opt, numSteps,
                   counterSteps, registry, calls, sSeen, didSync, pre,
                   initial, lastSync, edge_a_t, dpg_a_t, gv, gradIn, gradOut>>

\* A slice of a joint action: the policy that produced it, the encoder that
\* fed the policy, the batch field the encoder read, and whether the encoder
\* output went through tf.stop_gradient.
Slice(policy, encoder, input, detached) ==
    [policy |-> policy, encoder |-> encoder, input |-> input,
     detached |-> detached]

\* for i in tf.range(len(self._target_observation_networks)): the a_t loop
\* indexes the two target lists by i and stores a_t under str(i); line 196
\* reads the slices back under str(i) for the integers i of range(...).
\*   graph: i is a symbolic Tensor and self._target_observation_networks[i]
\*          raises TypeError while tracing; no op of the call has run.
\*   eager: i is an eager Tensor: the lists are indexed (IndexError when the
\*          target policy list is the shorter), the keys are the str() of
\*          Tensors, and a_t_dict['0'] raises KeyError.
\* Either way edge_a_t is never bound.
AssembleJointTargetAction ==
    /\ pc = "assemble"
    /\ Abort(IF execution = "graph" THEN "TypeError"
             ELSE IF lens.tpol < lens.tobs THEN "IndexError"
             ELSE "KeyError")
    /\ UNCHANGED edge_a_t
    /\ trace' = IF execution = "graph" THEN trace
                ELSE Append(trace, Event("joint_target_action", "-", -1))
    /\ UNCHANGED <<lens, execution, period, online, target, opt, numSteps,
                   counterSteps, registry, calls, pulled, sSeen, didSync, pre,
                   initial, lastSync, dpg_a_t, gv, gradIn, gradOut>>

\* ------------------------------------------------------- get_variables
\* self._variables[f'critic_network_{i}'] is the target critic's variables;
\* self._variables[f'policy_network_{i}'] those of the target encoder
\* followed by the target policy.  The groups hold the variables
\* themselves, so they read the current values.
VariableGroup(name, tg) ==
    IF name[1] = "critic_network" THEN <<tg.cri[name[2]]>>
    ELSE <<tg.obs[name[2]], tg.pol[name[2]]>>

\* A slip: a name that is not a key gives an empty group instead of raising.
LookupRaisesNever(names, keys) == FALSE

\* self._variables[name] raises KeyError for a name that is not a key.
LookupRaises(names, keys) ==
    \E j \in 1..Len(names) : names[j] \notin keys

\* The names a caller may ask for: those of the agents, and those of the
\* first index past them.
CandidateNames(l) ==
    {<<"critic_network", i>> : i \in 0..l.pol}
        \cup {<<"policy_network", i>> : i \in 0..l.pol}

NameLists(l) ==
    UNION {[1..n -> CandidateNames(l)] : n \in 0..MaxNames}

\* return [tf2_utils.to_numpy(self._variables[name]) for name in names]
GetVariables ==
    /\ pc = "idle"
    /\ ~gv.called
    /\ \E names \in NameLists(lens) :
          gv' = [called |-> TRUE,
                 names |-> names,
                 err |-> IF LookupRaises(names, registry)
                         THEN "KeyError" ELSE "none",
                 groups |-> IF LookupRaises(names, registry) THEN <<>>
                            ELSE [j \in 1..Len(names) |->
                                     IF names[j] \in registry
                                     THEN VariableGroup(names[j], target)
                                     ELSE <<>>]]
    /\ UNCHANGED <<pc, lens, execution, period, online, target, opt, numSteps,
                   counterSteps, registry, calls, pulled, outcome, sSeen,
                   didSync, pre, initial, lastSync, trace, edge_a_t, dpg_a_t,
                   gradIn, gradOut>>

\* Construction and step(), as far as a call gets.
NextStep ==
    \/ Construct
    \/ StepBegin
    \/ PullBatch
    \/ AssembleJointTargetAction

\* The caller of get_variables takes the result.
ReturnVariables ==
    /\ gv.called
    /\ gv' = NoGv
    /\ UNCHANGED <<pc, lens, execution, period, online, target, opt, numSteps,
                   counterSteps, registry, calls, pulled, outcome, sSeen,
                   didSync, pre, initial, lastSync, trace, edge_a_t, dpg_a_t,
                   gradIn, gradOut>>

\* step() on a learner with one agent count for its network lists, under
\* either execution and with optimizer lists of any length.
Spec == Init /\ [][NextStep]_vars

\* get_variables between the calls of step(), on learners given one
\* optimizer of each kind per agent.
InitVars ==
    /\ InitWith({l \in MatchedLens : l.popt = l.pol /\ l.copt = l.cri},
                1..MaxPeriod, {0, 1}, Executions)
    /\ gradIn = <<>>

Next == NextStep \/ GetVariables \/ ReturnVariables

SpecVars == InitVars /\ [][Next]_vars

\* ------------------------------------------- the reduction on its own
\* The gradient lists the replicas may hold: one list per replica, of one
\* length, None at the same positions.
GradientLists ==
    UNION {
        {g \in [1..NumReplicas ->
                    [1..n -> {None, Some(0), Some(NumReplicas)}]] :
            \A r \in 1..NumReplicas : \A j \in 1..n :
                (g[r][j] = None) <=> (g[1][j] = None)}
        : n \in 0..MaxLen}

InitGrad ==
    /\ InitWith({l \in MatchedLens : l.pol = 1 /\ l.popt = 1 /\ l.copt = 1},
                {1}, {0}, {"eager"})
    /\ gradIn \in GradientLists

\* Replica 1 calls average_gradients_across_replicas on its list.
ReduceAlone ==
    /\ ~gradOut.done
    /\ gradIn # <<>>
    /\ gradOut' = [done |-> TRUE,
                   results |-> average_gradients_across_replicas(
                                   Tail(gradIn), Head(gradIn))]
    /\ UNCHANGED <<pc, lens, execution, period, online, target, opt, numSteps,
                   counterSteps, registry, calls, pulled, outcome, sSeen,
                   didSync, pre, initial, lastSync, trace, edge_a_t, dpg_a_t,
                   gv, gradIn>>

SpecGrad == InitGrad /\ [][ReduceAlone]_vars

\* ------------------------------------- construction with any lengths
InitAny ==
    /\ InitWith(AnyLens, 1..MaxPeriod, {0, 1}, Executions)
    /\ gradIn = <<>>

SpecCtor == InitAny /\ [][NextStep]_vars
\* ==================================================================
\* Properties
\* ==================================================================
Nets == {"obs", "cri", "pol"}
Ended == pc = "idle" /\ calls > 0
Failed == Ended /\ outcome \notin {"none", "running", "ok"}

\* C1: a step() call copies the online parameters into the targets exactly
\* when the step counter as the call finds it, the value read before the
\* call's increment, is a multiple of target_update_period: from counter 0,
\* in the calls that see 0, P, 2P, ... and in no other.  Once the call is
\* past the copy, the targets are the online parameters when the counter was
\* such a multiple and are as the call found them otherwise.
C1_SyncIffMultiple ==
    calls > 0 =>
        /\ didSync <=> (pre.numSteps % period = 0)
        /\ pc = "pull" =>
              target = IF pre.numSteps % period = 0
                       THEN pre.online ELSE pre.target

\* C2: two agents, target_update_period 2, targets equal to the online
\* parameters at construction: the first step() call returns with the
\* targets as they were at construction, the second returns with the targets
\* equal to the online parameters and the step counter at 2 (the replay
\* source and the loss routines raising nothing).
C2_Scenario ==
    /\ Matched(lens) /\ lens.pol = 2 /\ period = 2
    /\ initial.target = initial.online

C2_EndToEnd ==
    (C2_Scenario /\ Ended /\ outcome \notin {"PullError", "LossError"}) =>
        /\ outcome = "ok"
        /\ calls = 1 => target = initial.target
        /\ calls = 2 => target = online /\ numSteps = 2

\* C3: the targets are written by the copy alone: once a copy has happened
\* every target parameter of every agent equals the online parameter as it
\* was at the last copy; a call that takes no copy leaves the targets as it
\* found them; after exactly P calls from counter 0, on a learner that has
\* synchronized, the targets are the online parameters of the one copy so
\* far, that of the first call.
C3_HardCopy ==
    /\ lastSync.done =>
          \A net \in Nets : \A i \in 0..(lens.pol - 1) :
              target[net][i] = lastSync.online[net][i]
    /\ (calls > 0 /\ ~didSync) => target = pre.target
    /\ (lastSync.done /\ Ended /\ calls = period) =>
          \A net \in Nets : \A i \in 0..(lens.pol - 1) :
              target[net][i] = initial.online[net][i]

\* P = 2 calls done: the targets are the online parameters of the first
\* call's copy, not what they were at construction, and the second call
\* left them alone.
C3_Witness ==
    /\ lastSync.done /\ Ended
    /\ period = 2 /\ calls = 2 /\ ~didSync
    /\ target = lastSync.online
    /\ target # initial.target
    /\ target = pre.target

\* C4 (as claimed): a step() call that aborts in the batch pull or in the
\* loss and gradient computation leaves the online parameters, the target
\* parameters and the optimizer states as it found them.
C4_AllOrNothing ==
    (Ended /\ outcome \in {"PullError", "LossError"}) =>
        /\ online = pre.online
        /\ target = pre.target
        /\ opt = pre.opt

\* C4 (amended): a step() call that aborts before the apply phase leaves
\* the online parameters and the optimizer states as it found them.  Either
\* it raised before any op ran, and the targets and the step counter are as
\* it found them; or the step counter is one more than it was, and the
\* targets are as it found them unless the counter it read was a multiple
\* of target_update_period, and then they are the online parameters.
C4_BeforeApply == \A i \in 1..Len(trace) : trace[i].phase # "apply"

C4_NoOptimizerUpdateOnAbort ==
    (Failed /\ C4_BeforeApply) =>
        /\ online = pre.online
        /\ opt = pre.opt
        /\ \/ /\ numSteps = pre.numSteps
              /\ target = pre.target
           \/ /\ numSteps = pre.numSteps + 1
              /\ target = IF pre.numSteps % period = 0
                          THEN pre.online ELSE pre.target

\* A call aborted by the batch pull after it had overwritten the targets
\* and incremented the counter.
C4_Witness ==
    /\ Failed /\ outcome = "PullError"
    /\ target # pre.target
    /\ numSteps = pre.numSteps + 1
    /\ online = pre.online

\* C5: the reduced list has the length of the input, None exactly where the
\* input has None, and elsewhere the mean over the replicas of the gradients
\* at that position.
RECURSIVE C5_SumOverReplicas(_, _)
C5_SumOverReplicas(r, j) ==
    IF r = 0 THEN 0 ELSE gradIn[r][j][1] + C5_SumOverReplicas(r - 1, j)

C5_ReductionKeepsNones ==
    gradOut.done =>
        /\ Len(gradOut.results) = Len(gradIn[1])
        /\ \A j \in 1..Len(gradIn[1]) :
              IF gradIn[1][j] = None
              THEN gradOut.results[j] = None
              ELSE /\ gradOut.results[j] # None
                   /\ gradOut.results[j][1] * NumReplicas
                          = C5_SumOverReplicas(NumReplicas, j)

\* A list with a None before two gradients whose means differ, the replicas
\* disagreeing on the first of them.
C5_Witness ==
    /\ gradOut.done
    /\ Len(gradIn[1]) = 3
    /\ gradOut.results[1] = None
    /\ gradOut.results[2] # None
    /\ gradOut.results[3] # None
    /\ gradOut.results[2] # gradOut.results[3]
    /\ gradIn[1][2] # gradIn[2][2]

\* C6: get_variables raises the lookup error exactly when a requested name
\* is not policy_network_<i> or critic_network_<i> of an agent i, and
\* otherwise returns one group per name in the order of the request; the
\* call changes no parameter, optimizer state or counter.
C6_Result ==
    gv.called =>
        LET unregistered ==
                \E j \in 1..Len(gv.names) :
                    gv.names[j][2] \notin 0..(lens.pol - 1)
        IN /\ (gv.err = "KeyError") <=> unregistered
           /\ ~unregistered =>
                 /\ Len(gv.groups) = Len(gv.names)
                 /\ \A j \in 1..Len(gv.names) :
                       gv.groups[j] = VariableGroup(gv.names[j], target)

C6_Frame ==
    (~gv.called /\ gv'.called) =>
        UNCHANGED <<online, target, opt, numSteps, counterSteps>>

C6_GetVariables == [](C6_Result) /\ [][C6_Frame]_vars

\* Two names answered in the order asked, after a copy changed the targets.
C6_Witness ==
    /\ gv.called /\ gv.err = "none"
    /\ gv.names = <<<<"policy_network", 0>>, <<"critic_network", 0>>>>
    /\ Len(gv.groups) = 2
    /\ Len(gv.groups[1]) = 2 /\ Len(gv.groups[2]) = 1
    /\ target # initial.target

\* C7: a learner whose lists and edge_number disagree on the agent count is
\* refused by __init__, so none is constructed and none runs a step.
C7_MismatchRejected ==
    (pc # "new" /\ ~Matched(lens)) => (pc = "ctor_error" /\ calls = 0)

\* C8: in a call that has its batch the policy loss of every agent is
\* computed without error, and the joint action given to critic k for the
\* policy loss of agent k has one slice per agent in agent order, slice k
\* from agent k's online policy and every other slice j agent j's slice of
\* the joint target action.
C8_CounterfactualJointAction ==
    (calls > 0 /\ outcome # "PullError" /\ pc \notin {"pull", "assemble"}) =>
        /\ outcome \in {"running", "ok"}
        /\ DOMAIN dpg_a_t = 0..(lens.edge - 1)
        /\ \A a \in DOMAIN dpg_a_t :
              /\ Len(dpg_a_t[a]) = lens.edge
              /\ \A j \in 0..(lens.edge - 1) :
                    IF j = a
                    THEN dpg_a_t[a][j + 1].policy = <<"policy", j>>
                    ELSE dpg_a_t[a][j + 1] = edge_a_t[j]

\* C9: a call that has its batch assembles the joint target action: one
\* slice per agent in agent order, the slice of agent i being target policy
\* i on target encoder i's detached output for next_observation[:, i, :].
C9_JointTargetActionFromNextObservation ==
    (calls > 0 /\ outcome # "PullError" /\ pc \notin {"pull", "assemble"}) =>
        /\ DOMAIN edge_a_t = 0..(lens.pol - 1)
        /\ \A i \in DOMAIN edge_a_t :
              edge_a_t[i] = Slice(<<"target_policy", i>>,
                                  <<"target_observation", i>>,
                                  <<"next_observation", i>>, TRUE)

\* C10: a step() call that has its batch goes through the phases decision,
\* increment, pull, loss and gradient computation, reduction, apply; the
\* phases of a call come in that order, none twice, and no apply comes
\* before the gradients of every agent are computed and reduced.
C10_Phases ==
    {"sync_decision", "increment", "pull", "loss", "gradient", "reduce",
     "apply"}

C10_ClaimedRank(e) ==
    CASE e.phase = "sync_decision" -> 1
      [] e.phase = "increment" -> 2
      [] e.phase = "pull" -> 3
      [] e.phase \in {"joint_target_action", "loss", "gradient"} -> 4
      [] e.phase = "reduce" -> 5
      [] e.phase = "apply" -> 6

C10_AppliesAfterAllReductions ==
    \A i \in 1..Len(trace) :
        trace[i].phase = "apply" =>
            \A a \in 0..(lens.edge - 1) :
                /\ \E j \in 1..(i - 1) : trace[j] = Event("loss", "-", a)
                /\ \A net \in {"policy", "critic"} :
                      \E j \in 1..(i - 1) : trace[j] = Event("reduce", net, a)

C10_PhasesInClaimedOrder ==
    /\ \A i, j \in 1..Len(trace) :
          i < j => /\ C10_ClaimedRank(trace[i]) <= C10_ClaimedRank(trace[j])
                   /\ trace[i] # trace[j]
    /\ C10_AppliesAfterAllReductions
    /\ (Ended /\ outcome # "PullError") =>
          \A p \in C10_Phases : \E i \in 1..Len(trace) : trace[i].phase = p

\* C11: the step counter and the counting collaborator are 0 before the
\* first call of step(); the step counter never decreases; and after n calls
\* of step() on a fresh learner, each given its batch, every call has
\* completed, the step counter reads n and the collaborator has counted n
\* steps, one per call.
C11_StepCounter ==
    /\ calls = 0 => (numSteps = 0 /\ counterSteps = 0)
    /\ numSteps >= pre.numSteps
    /\ (Ended /\ pulled = calls) =>
          /\ outcome = "ok"
          /\ numSteps = calls
          /\ counterSteps = calls
====
